---- MODULE Spec2Model ----
(***************************************************************************)
(* The vector-store lab (labs/03-orchestration/03-VectorStore/mongo.ipynb) *)
(* as a state machine: the notebook's cells run top to bottom on one       *)
(* thread.  The setup cell drops and recreates the database with its two   *)
(* vector-indexed collections, the ingestion cell streams the records,     *)
(* embeds each one under the tenacity retry policy and inserts it, and     *)
(* prepare_chain builds the retrieval chain whose LLM calls go through the *)
(* semantic cache.  chain.invoke is then called with a question and an     *)
(* empty chat history.                                                     *)
(*                                                                         *)
(* The hosted endpoints are the environment.  An embedding is a vector of  *)
(* `dimensions` numbers; the model keeps its size and, in place of the     *)
(* numbers, an integer point of the plane whose direction gives the        *)
(* cosine score.  The embedding endpoint is a fixed function of the text.  *)
(* An attempt of generate_embeddings may fail, and so may a call of the    *)
(* chat endpoint; the embedding calls langchain makes inside a query are   *)
(* taken to succeed.                                                       *)
(***************************************************************************)
EXTENDS Integers, Sequences, FiniteSets

VARIABLES
    pc,             \* the statement the notebook is at
    collection,     \* documents of the content collection, in insertion order
    cache,          \* documents of the cache collection, in insertion order
    indexes,        \* the vector index of each collection (NoIndex: none)
    stream,         \* number of items read from the stream so far
    object,         \* the loop variable of the ingestion loop
    vectorArray,    \* the vector generate_embeddings returned for object
    counter,        \* the ingestion loop's counter
    attempt,        \* tenacity's attempt number inside generate_embeddings
    sleeps,         \* how many times the loop has slept
    query,          \* the question of the chain.invoke in progress or last made
    docs,           \* the documents the retriever returned for query
    generation,     \* the text the chat endpoint returned for the current prompt
    llmCalls,       \* calls of the chat endpoint made by the current invoke
    response,       \* what the last chain.invoke gave its caller
    cacheAtInvoke,  \* the cache collection as it was when the invoke began
    invocations,    \* number of chain.invoke calls made
    answeredMisses  \* invokes whose cache lookup missed and whose chat call answered

vars == <<pc, collection, cache, indexes, stream, object, vectorArray, counter,
          attempt, sleeps, query, docs, generation, llmCalls, response,
          cacheAtInvoke, invocations, answeredMisses>>

(***************************************************************************)
(* Bounds of the model.                                                    *)
(***************************************************************************)
MaxRecords == 7
MaxQueries == 3
MaxFileRecords == 205

(***************************************************************************)
(* Constants of the notebook.  Scores are kept in hundredths.              *)
(***************************************************************************)
IndexDimensions == 1536
EmbeddingDimensions == 1536
MaxAttempts == 20
RateLimitEvery == 100
RetrieverK == 5
RetrieverScoreThreshold == 20
CacheScoreThreshold == 99

NoIndex == [name |-> "", collection |-> "", key |-> "", similarity |-> "", dimensions |-> 0]
NoObject == [id |-> 0, overview |-> ""]
NoVector == [dimensions |-> 0, direction |-> <<0, 0>>]
NoResponse == [kind |-> "none", answer |-> "", source_documents |-> <<>>]

(***************************************************************************)
(* The environment's data: the streamed file, the questions asked, the     *)
(* texts the chat endpoint may produce, and the embedding model.           *)
(***************************************************************************)
Overviews == << "m1", "m2", "m3", "m4", "m5", "m6", "m7", "m8" >>

StreamItem(i) == [id |-> i, overview |-> Overviews[((i - 1) % Len(Overviews)) + 1]]

Questions == { "Tell me about films with Buzz Lightyear",
               "Tell me something about films with Buzz Lightyear",
               "Whose spaceship crashed on a desert planet" }

Answers == { "a1", "a2" }

Direction(text) ==
    CASE text = "m1" -> <<1, -4>>
      [] text = "m2" -> <<2, 0>>
      [] text = "m3" -> <<0, 2>>
      [] text = "m4" -> <<2, 1>>
      [] text = "m5" -> <<1, 1>>
      [] text = "m6" -> <<3, 1>>
      [] text = "m7" -> <<2, -1>>
      [] text = "m8" -> <<-1, 0>>
      [] text = "stale" -> <<1, 2>>
      [] text = "Tell me about films with Buzz Lightyear" -> <<8, 0>>
      [] text = "Tell me something about films with Buzz Lightyear" -> <<8, 1>>
      [] text = "Whose spaceship crashed on a desert planet" -> <<0, 8>>

(***************************************************************************)
(* Cosine similarity on the directions, compared without square roots.     *)
(***************************************************************************)
Dot(u, v) == u[1] * v[1] + u[2] * v[2]

Norm2(u) == Dot(u, u)

\* cos(u, v) >= hundredths / 100
ScoreAtLeast(u, v, hundredths) ==
    /\ Dot(u, v) >= 0
    /\ 100 * 100 * Dot(u, v) * Dot(u, v) >= hundredths * hundredths * Norm2(u) * Norm2(v)

\* cos(q, a) > cos(q, b)
Closer(q, a, b) ==
    LET da == Dot(q, a)
        db == Dot(q, b)
    IN  IF da >= 0 /\ db < 0 THEN TRUE
        ELSE IF da < 0 /\ db >= 0 THEN FALSE
        ELSE IF da >= 0 THEN da * da * Norm2(b) > db * db * Norm2(a)
        ELSE da * da * Norm2(b) < db * db * Norm2(a)

(***************************************************************************)
(* The embedding endpoint.  generate_embeddings asks for 1536 numbers; the *)
(* langchain client `embeddings` names no size and gets the deployment's   *)
(* own, which the lab takes to be the same 1536.                           *)
(***************************************************************************)
Embedding(text, dimensions) ==
    [dimensions |-> dimensions, direction |-> Direction(text)]

\* Variant: the call names no size and gets a vector of another size.
generate_embeddings_unsized(text) == Embedding(text, 3072)

\* What generate_embeddings returns when an attempt succeeds.
generate_embeddings(text) == Embedding(text, EmbeddingDimensions)

\* Variant: the stop condition lets one attempt too many through.
stop_after_attempt_late(n) == n > MaxAttempts

\* tenacity's stop condition, asked after a failed attempt.
stop_after_attempt(n) == n >= MaxAttempts

\* embeddings.embed_query, used by the retriever.
embed_query(text) == Embedding(text, EmbeddingDimensions)

(***************************************************************************)
(* The index the createIndexes command declares.                           *)
(***************************************************************************)
create_collection_and_vector_index(database, cosmos_collection, vector_property, embeddings_dimensions) ==
    [ name |-> "VectorSearchIndex",
      collection |-> cosmos_collection,
      key |-> vector_property,
      similarity |-> "COS",
      dimensions |-> IndexDimensions ]

(***************************************************************************)
(* Vector search of a collection: the k nearest documents by cosine score, *)
(* best first (equal scores in insertion order), and of those the ones     *)
(* whose score reaches the threshold.                                      *)
(***************************************************************************)
Before(documents, q, i, j) ==
    \/ Closer(q, documents[i].vectorContent.direction, documents[j].vectorContent.direction)
    \/ /\ ~Closer(q, documents[j].vectorContent.direction, documents[i].vectorContent.direction)
       /\ i < j

RECURSIVE Nearest(_, _, _, _)
Nearest(documents, q, remaining, k) ==
    IF k = 0 \/ remaining = {} THEN <<>>
    ELSE LET best == CHOOSE i \in remaining :
                        \A j \in remaining \ {i} : Before(documents, q, i, j)
         IN  <<documents[best]>> \o Nearest(documents, q, remaining \ {best}, k - 1)

AboveThreshold(found, q, score_threshold) ==
    SelectSeq(found, LAMBDA d : ScoreAtLeast(q, d.vectorContent.direction, score_threshold))

similarity_search(documents, vector, k, score_threshold) ==
    AboveThreshold(Nearest(documents, vector.direction, DOMAIN documents, k),
                   vector.direction, score_threshold)

\* Variant: the retriever is built without its score threshold.
retriever_without_threshold(question, documents) ==
    similarity_search(documents, embed_query(question), RetrieverK, 0)

\* vectorstore.as_retriever(search_type = "similarity", k = 5, score_threshold = 0.2)
retriever(question, documents) ==
    similarity_search(documents, embed_query(question), RetrieverK, RetrieverScoreThreshold)

(***************************************************************************)
(* The prompt the chain sends to the chat model: the template filled with  *)
(* the retrieved overviews, the chat history and the question.  Its        *)
(* embedding is that of its text: the parts' directions added up.          *)
(***************************************************************************)
RECURSIVE PageContents(_)
PageContents(found) ==
    IF found = <<>> THEN <<>>
    ELSE <<Head(found).overview>> \o PageContents(Tail(found))

chatbot_prompt(context, chat_history, question) ==
    [context |-> context, chat_history |-> chat_history, question |-> question]

RECURSIVE SumDirections(_)
SumDirections(texts) ==
    IF texts = <<>> THEN <<0, 0>>
    ELSE LET h == Direction(Head(texts))
             t == SumDirections(Tail(texts))
         IN  <<h[1] + t[1], h[2] + t[2]>>

PromptEmbedding(prompt) ==
    LET c == SumDirections(prompt.context)
        q == Direction(prompt.question)
    IN  [dimensions |-> EmbeddingDimensions, direction |-> <<c[1] + q[1], c[2] + q[2]>>]

(***************************************************************************)
(* The semantic cache set as the LLM cache: it is probed with the prompt   *)
(* of the LLM call, and updated with the prompt and what the model said.   *)
(***************************************************************************)
\* the lookup asks for the single nearest entry
sem_cache_lookup(entries, prompt) ==
    similarity_search(entries, PromptEmbedding(prompt), 1, CacheScoreThreshold)

\* Variant: the update stores nothing.
sem_cache_update_dropped(entries, prompt, return_val) == entries

sem_cache_update(entries, prompt, return_val) ==
    Append(entries, [ textContent |-> prompt,
                      vectorContent |-> PromptEmbedding(prompt),
                      return_val |-> return_val ])

\* The prompt of the invoke in progress.
CurrentPrompt == chatbot_prompt(PageContents(docs), <<>>, query)

(***************************************************************************)
(* The initial state: nothing has run.  The database may be left over from *)
(* an earlier run of the notebook.                                         *)
(***************************************************************************)
StaleCollection ==
    << [id |-> 99, overview |-> "stale", vectorContent |-> Embedding("stale", EmbeddingDimensions)] >>

StaleCache ==
    sem_cache_update(<<>>, chatbot_prompt(<<"stale">>, <<>>, "Tell me about films with Buzz Lightyear"), "a1")

Init ==
    /\ pc = "setup"
    /\ \/ /\ collection = <<>>
          /\ cache = <<>>
          /\ indexes = [collection |-> NoIndex, cache |-> NoIndex]
       \/ /\ collection = StaleCollection
          /\ cache = StaleCache
          /\ indexes = [ collection |-> create_collection_and_vector_index("database", "collection", "vectorContent", 1536),
                         cache |-> create_collection_and_vector_index("database", "cache", "vectorContent", 1536) ]
    /\ stream = 0
    /\ object = NoObject
    /\ vectorArray = NoVector
    /\ counter = 0
    /\ attempt = 0
    /\ sleeps = 0
    /\ query = ""
    /\ docs = <<>>
    /\ generation = ""
    /\ llmCalls = 0
    /\ response = NoResponse
    /\ cacheAtInvoke = <<>>
    /\ invocations = 0
    /\ answeredMisses = 0

ingestVars == <<stream, object, vectorArray, counter, attempt, sleeps>>
queryVars == <<query, docs, generation, llmCalls, response, cacheAtInvoke, invocations, answeredMisses>>

(***************************************************************************)
(* The setup cell: drop the database if it exists, then create the two     *)
(* collections, each with its vector index.                                *)
(***************************************************************************)
\* cosmos_database in cosmos_client.list_database_names()
DatabaseExists == indexes.collection # NoIndex \/ indexes.cache # NoIndex

\* Variant: the database is not dropped.
SetupWithoutDrop ==
    /\ pc = "setup"
    /\ indexes' = [ collection |-> create_collection_and_vector_index("database", "collection", "vectorContent", 1536),
                    cache |-> create_collection_and_vector_index("database", "cache", "vectorContent", 1536) ]
    /\ pc' = "ingest"
    /\ UNCHANGED <<collection, cache, ingestVars, queryVars>>

Setup ==
    /\ pc = "setup"
    /\ collection' = IF DatabaseExists THEN <<>> ELSE collection
    /\ cache' = IF DatabaseExists THEN <<>> ELSE cache
    /\ indexes' = [ collection |-> create_collection_and_vector_index("database", "collection", "vectorContent", 1536),
                    cache |-> create_collection_and_vector_index("database", "cache", "vectorContent", 1536) ]
    /\ pc' = "ingest"
    /\ UNCHANGED <<ingestVars, queryVars>>

(***************************************************************************)
(* The ingestion cell.                                                     *)
(***************************************************************************)
\* stream = urlopen(...); counter = 0
OpenStream ==
    /\ pc = "ingest"
    /\ stream' = 0
    /\ counter' = 0
    /\ pc' = "stream"
    /\ UNCHANGED <<collection, cache, indexes, object, vectorArray, attempt, sleeps, queryVars>>

\* the for statement yields the next item and generate_embeddings is called
NextItemOf(records) ==
    /\ pc = "stream"
    /\ stream < records
    /\ stream' = stream + 1
    /\ object' = StreamItem(stream + 1)
    /\ attempt' = 1
    /\ pc' = "embed"
    /\ UNCHANGED <<collection, cache, indexes, vectorArray, counter, sleeps, queryVars>>

\* a short file, for the notebook run to its last cell
NextItem == NextItemOf(MaxRecords)

\* a file of more than 200 records, for the ingestion cell alone
NextItemOfFile == NextItemOf(MaxFileRecords)

\* the for statement finds the stream exhausted; nothing reads the retry
\* statistics of the last call any more
EndOfStream ==
    /\ pc = "stream"
    /\ attempt' = 0
    /\ pc' = "ingested"
    /\ UNCHANGED <<collection, cache, indexes, stream, object, vectorArray, counter, sleeps, queryVars>>

\* an attempt of generate_embeddings fails and tenacity waits and tries again
EmbedRetry ==
    /\ pc = "embed"
    /\ ~stop_after_attempt(attempt)
    /\ attempt' = attempt + 1
    /\ UNCHANGED <<pc, collection, cache, indexes, stream, object, vectorArray, counter, sleeps, queryVars>>

\* Variant: the failure is swallowed and the loop goes on to the next item.
EmbedExhaustedSkips ==
    /\ pc = "embed"
    /\ stop_after_attempt(attempt)
    /\ pc' = "stream"
    /\ UNCHANGED <<collection, cache, indexes, ingestVars, queryVars>>

\* an attempt fails and tenacity stops: RetryError leaves the cell
EmbedExhausted ==
    /\ pc = "embed"
    /\ stop_after_attempt(attempt)
    /\ pc' = "failed"
    /\ UNCHANGED <<collection, cache, indexes, ingestVars, queryVars>>

\* an attempt succeeds: vectorArray = generate_embeddings(object['overview'])
EmbedSucceeds ==
    /\ pc = "embed"
    /\ vectorArray' = generate_embeddings(object.overview)
    /\ pc' = "insert"
    /\ UNCHANGED <<collection, cache, indexes, stream, object, counter, attempt, sleeps, queryVars>>

\* object[cosmos_vector_property] = vectorArray; collection.insert_one(object)
Insert ==
    /\ pc = "insert"
    /\ collection' = Append(collection, [ id |-> object.id,
                                          overview |-> object.overview,
                                          vectorContent |-> vectorArray ])
    /\ pc' = "count"
    /\ UNCHANGED <<cache, indexes, ingestVars, queryVars>>

\* Variant: the counter is tested before it is incremented.
CountPausesBeforeIncrement ==
    /\ pc = "count"
    /\ counter' = counter + 1
    /\ sleeps' = IF counter % RateLimitEvery = 0 THEN sleeps + 1 ELSE sleeps
    /\ pc' = "stream"
    /\ UNCHANGED <<collection, cache, indexes, stream, object, vectorArray, attempt, queryVars>>

\* counter += 1; every 100 documents, print and sleep
Count ==
    /\ pc = "count"
    /\ counter' = counter + 1
    /\ sleeps' = IF (counter + 1) % RateLimitEvery = 0 THEN sleeps + 1 ELSE sleeps
    /\ pc' = "stream"
    /\ UNCHANGED <<collection, cache, indexes, stream, object, vectorArray, attempt, queryVars>>

(***************************************************************************)
(* The vector search configuration cell and prepare_chain().               *)
(***************************************************************************)
PrepareChain ==
    /\ pc = "ingested"
    /\ pc' = "ready"
    /\ UNCHANGED <<collection, cache, indexes, ingestVars, queryVars>>

(***************************************************************************)
(* chain.invoke({"question": query, 'chat_history': []}).  With an empty   *)
(* history the question goes to the retriever as it is, and the chain      *)
(* makes one LLM call, which goes through the LLM cache.                   *)
(***************************************************************************)
\* Variant: the chain goes to its LLM call without asking the retriever.
InvokeWithoutRetrieval(question) ==
    /\ pc = "ready"
    /\ invocations < MaxQueries
    /\ invocations' = invocations + 1
    /\ query' = question
    /\ docs' = <<>>
    /\ generation' = ""
    /\ llmCalls' = 0
    /\ response' = NoResponse
    /\ cacheAtInvoke' = cache
    /\ pc' = "lookup"
    /\ UNCHANGED <<collection, cache, indexes, ingestVars, answeredMisses>>

Invoke(question) ==
    /\ pc = "ready"
    /\ invocations < MaxQueries
    /\ invocations' = invocations + 1
    /\ query' = question
    /\ docs' = <<>>
    /\ generation' = ""
    /\ llmCalls' = 0
    /\ response' = NoResponse
    /\ cacheAtInvoke' = cache
    /\ pc' = "retrieve"
    /\ UNCHANGED <<collection, cache, indexes, ingestVars, answeredMisses>>

Retrieve ==
    /\ pc = "retrieve"
    /\ docs' = retriever(query, collection)
    /\ pc' = "lookup"
    /\ UNCHANGED <<collection, cache, indexes, ingestVars, query, generation, llmCalls, response, cacheAtInvoke, invocations, answeredMisses>>

\* Variant: the answer found in the cache is stored again.
CacheHitStoresAgain ==
    /\ pc = "lookup"
    /\ sem_cache_lookup(cache, CurrentPrompt) # <<>>
    /\ cache' = sem_cache_update(cache, CurrentPrompt, sem_cache_lookup(cache, CurrentPrompt)[1].return_val)
    /\ response' = [ kind |-> "answer",
                     answer |-> sem_cache_lookup(cache, CurrentPrompt)[1].return_val,
                     source_documents |-> docs ]
    /\ pc' = "ready"
    /\ UNCHANGED <<collection, indexes, ingestVars, query, docs, generation, llmCalls, cacheAtInvoke, invocations, answeredMisses>>

\* the cache holds an answer for the prompt: the chain returns it
CacheHit ==
    /\ pc = "lookup"
    /\ sem_cache_lookup(cache, CurrentPrompt) # <<>>
    /\ response' = [ kind |-> "answer",
                     answer |-> sem_cache_lookup(cache, CurrentPrompt)[1].return_val,
                     source_documents |-> docs ]
    /\ pc' = "ready"
    /\ UNCHANGED <<collection, cache, indexes, ingestVars, query, docs, generation, llmCalls, cacheAtInvoke, invocations, answeredMisses>>

\* the cache holds none: the chat model is called
CacheMiss ==
    /\ pc = "lookup"
    /\ sem_cache_lookup(cache, CurrentPrompt) = <<>>
    /\ pc' = "generate"
    /\ UNCHANGED <<collection, cache, indexes, ingestVars, queryVars>>

\* the chat endpoint answers
GenerateSucceeds(text) ==
    /\ pc = "generate"
    /\ llmCalls' = llmCalls + 1
    /\ generation' = text
    /\ answeredMisses' = answeredMisses + 1
    /\ pc' = "update"
    /\ UNCHANGED <<collection, cache, indexes, ingestVars, query, docs, response, cacheAtInvoke, invocations>>

\* Variant: the failure is caught and a canned answer is returned.
GenerateFailsWithFallback ==
    /\ pc = "generate"
    /\ llmCalls' = llmCalls + 1
    /\ response' = [kind |-> "answer", answer |-> "I don't know", source_documents |-> docs]
    /\ pc' = "ready"
    /\ UNCHANGED <<collection, cache, indexes, ingestVars, query, docs, generation, cacheAtInvoke, invocations, answeredMisses>>

\* Variant: the cache entry is written before the chat endpoint has answered.
GenerateFailsAfterCacheWrite ==
    /\ pc = "generate"
    /\ llmCalls' = llmCalls + 1
    /\ cache' = sem_cache_update(cache, CurrentPrompt, "")
    /\ response' = [kind |-> "error", answer |-> "", source_documents |-> <<>>]
    /\ pc' = "ready"
    /\ UNCHANGED <<collection, indexes, ingestVars, query, docs, generation, cacheAtInvoke, invocations, answeredMisses>>

\* the chat endpoint fails or times out: the exception leaves chain.invoke
GenerateFails ==
    /\ pc = "generate"
    /\ llmCalls' = llmCalls + 1
    /\ response' = [kind |-> "error", answer |-> "", source_documents |-> <<>>]
    /\ pc' = "ready"
    /\ UNCHANGED <<collection, cache, indexes, ingestVars, query, docs, generation, cacheAtInvoke, invocations, answeredMisses>>

\* Variant: the cache is given the content collection to write to.
CacheUpdateInContentCollection ==
    /\ pc = "update"
    /\ collection' = sem_cache_update(collection, CurrentPrompt, generation)
    /\ response' = [kind |-> "answer", answer |-> generation, source_documents |-> docs]
    /\ pc' = "ready"
    /\ UNCHANGED <<cache, indexes, ingestVars, query, docs, generation, llmCalls, cacheAtInvoke, invocations, answeredMisses>>

\* the answer is stored in the cache and returned
CacheUpdate ==
    /\ pc = "update"
    /\ cache' = sem_cache_update(cache, CurrentPrompt, generation)
    /\ response' = [kind |-> "answer", answer |-> generation, source_documents |-> docs]
    /\ pc' = "ready"
    /\ UNCHANGED <<collection, indexes, ingestVars, query, docs, generation, llmCalls, cacheAtInvoke, invocations, answeredMisses>>

Next ==
    \/ Setup
    \/ OpenStream
    \/ NextItem
    \/ EndOfStream
    \/ EmbedRetry
    \/ EmbedExhausted
    \/ EmbedSucceeds
    \/ Insert
    \/ Count
    \/ PrepareChain
    \/ \E question \in Questions : Invoke(question)
    \/ Retrieve
    \/ CacheHit
    \/ CacheMiss
    \/ \E text \in Answers : GenerateSucceeds(text)
    \/ GenerateFails
    \/ CacheUpdate

Spec == Init /\ [][Next]_vars

(***************************************************************************)
(* The setup cell and the ingestion cell alone, on a file long enough for  *)
(* the loop to sleep more than once.                                       *)
(***************************************************************************)
IngestionNext ==
    \/ Setup
    \/ OpenStream
    \/ NextItemOfFile
    \/ EndOfStream
    \/ EmbedRetry
    \/ EmbedExhausted
    \/ EmbedSucceeds
    \/ Insert
    \/ Count

IngestionSpec == Init /\ [][IngestionNext]_vars

(***************************************************************************)
(* Helpers of the properties.                                              *)
(***************************************************************************)
\* chain.invoke has returned or raised
Returned == pc = "ready" /\ invocations > 0

\* the retriever has run for the invoke in progress or last made
Probed == invocations > 0 /\ pc \in {"lookup", "generate", "update", "ready"}

\* cos(u, v) >= 99/100 and cos(u, v) >= 1/5, written out
Cos99(u, v) == Dot(u, v) >= 0 /\ 10000 * Dot(u, v) * Dot(u, v) >= 9801 * Norm2(u) * Norm2(v)
Cos20(u, v) == Dot(u, v) >= 0 /\ 25 * Dot(u, v) * Dot(u, v) >= Norm2(u) * Norm2(v)

\* the cache lookup of the invoke found no entry
MissedLookup == Probed /\ sem_cache_lookup(cacheAtInvoke, CurrentPrompt) = <<>>

\* the prompt the same question would give if asked again now
RepeatedPrompt == chatbot_prompt(PageContents(retriever(query, collection)), <<>>, query)

\* the ingestion loop has run to the end of the stream
Ingested == pc \in {"ingested", "ready", "retrieve", "lookup", "generate", "update"}

\* the ingestion cell is running its loop, or has stopped in it
InLoop == pc \in {"stream", "embed", "insert", "count", "failed"}

\* at most 5 documents, all of the collection, all scoring 0.2 or more
WithinBound(found, question) ==
    /\ Len(found) <= 5
    /\ \A i \in DOMAIN found :
          /\ \E j \in DOMAIN collection : collection[j] = found[i]
          /\ Cos20(Direction(question), found[i].vectorContent.direction)

\* the chat endpoint was called by the invoke and failed
GenerationFailed == invocations > 0 /\ llmCalls = 1 /\ generation \notin Answers

\* the notebook is in the ingestion cell
IngestionStep == pc \in {"ingest", "stream", "embed", "insert", "count"}

\* the notebook is at or inside a chain.invoke
QueryStep == pc \in {"ready", "retrieve", "lookup", "generate", "update"}

(***************************************************************************)
(* C1.  Whenever the question of a query has cosine similarity >= 0.99 to  *)
(* the question of an entry the cache held when the query began, the chat  *)
(* endpoint is not called during the query and chain.invoke returns that   *)
(* entry's stored answer.                                                  *)
(***************************************************************************)
C1_HitOnSimilarQuestion ==
    \A i \in DOMAIN cacheAtInvoke :
        (invocations > 0 /\ Cos99(Direction(query), Direction(cacheAtInvoke[i].textContent.question)))
            => /\ llmCalls = 0
               /\ Returned => /\ response.kind = "answer"
                              /\ response.answer = cacheAtInvoke[i].return_val

(***************************************************************************)
(* C2.  When the cache lookup of a query finds no entry scoring 0.99 (an   *)
(* empty cache included), the chat endpoint is called exactly once for the *)
(* query, and when it answers exactly one entry is added to the cache: the *)
(* prompt with the question, its embedding and the answer.  The same query *)
(* made again straight away is then a cache hit with that answer.          *)
(***************************************************************************)
C2_MissGeneratesOnceAndStores ==
    /\ llmCalls <= 1
    /\ (MissedLookup /\ Returned) =>
          /\ llmCalls = 1
          /\ response.kind = "answer" =>
                /\ Len(cache) = Len(cacheAtInvoke) + 1
                /\ SubSeq(cache, 1, Len(cacheAtInvoke)) = cacheAtInvoke
                /\ cache[Len(cache)].textContent.question = query
                /\ cache[Len(cache)].textContent = CurrentPrompt
                /\ cache[Len(cache)].vectorContent = PromptEmbedding(CurrentPrompt)
                /\ cache[Len(cache)].return_val = response.answer
                /\ sem_cache_lookup(cache, RepeatedPrompt) # <<>>
                /\ sem_cache_lookup(cache, RepeatedPrompt)[1].return_val = response.answer

\* a miss on a cache that already holds an entry, answered and stored
C2_Witness ==
    /\ Returned
    /\ MissedLookup
    /\ cacheAtInvoke # <<>>
    /\ response.kind = "answer"
    /\ Len(cache) = Len(cacheAtInvoke) + 1

(***************************************************************************)
(* C3.  The cache is written only after the chat endpoint has answered the *)
(* query's prompt, and with that answer.  When the chat endpoint fails,    *)
(* the cache is as it was when the query began and holds no entry for the  *)
(* question.                                                               *)
(***************************************************************************)
C3_CacheWriteAfterGeneration ==
    invocations > 0 =>
        /\ cache # cacheAtInvoke =>
              /\ llmCalls = 1
              /\ generation \in Answers
              /\ cache = Append(cacheAtInvoke, [ textContent |-> CurrentPrompt,
                                                vectorContent |-> PromptEmbedding(CurrentPrompt),
                                                return_val |-> generation ])
        /\ (llmCalls = 1 /\ generation \notin Answers) =>
              /\ cache = cacheAtInvoke
              /\ \A i \in DOMAIN cache : cache[i].textContent.question # query

\* a failed generation on a cache that holds entries of other questions
C3_Witness ==
    /\ Returned
    /\ llmCalls = 1
    /\ generation \notin Answers
    /\ response.kind = "error"
    /\ cache # <<>>
    /\ cache = cacheAtInvoke

(***************************************************************************)
(* C4.  When the ingestion loop has run to the end of a stream of N items  *)
(* on the collections the setup cell created, the content collection holds *)
(* exactly N documents, the i-th being the i-th item of the stream with a  *)
(* vector of 1536 dimensions, and the counter is N.                        *)
(***************************************************************************)
C4_IngestionCount ==
    Ingested =>
        /\ Len(collection) = stream
        /\ counter = stream
        /\ \A i \in 1..stream :
              /\ collection[i].id = StreamItem(i).id
              /\ collection[i].overview = StreamItem(i).overview
              /\ collection[i].vectorContent.dimensions = 1536

\* the loop has finished a stream of several items
C4_Witness ==
    /\ pc = "ingested"
    /\ stream >= 3
    /\ counter = stream

(***************************************************************************)
(* C5.  When the 20th attempt of one generate_embeddings call fails, there *)
(* is no further attempt: the failure leaves the ingestion cell, which     *)
(* stops there.  The item being processed is not inserted, no later item   *)
(* is read, and both collections are as they were when the call began:     *)
(* every item read before is in the content collection, none was skipped.  *)
(***************************************************************************)
C5_RetryExhaustion ==
    /\ (pc = "embed" /\ attempt >= 20) => (ENABLED EmbedExhausted /\ ~ENABLED EmbedRetry)
    /\ pc = "failed" =>
          /\ attempt = 20
          /\ ~ENABLED Next
          /\ \A i \in DOMAIN collection : collection[i].id # object.id
          /\ counter = stream - 1
    /\ InLoop =>
          /\ cache = <<>>
          /\ Len(collection) = IF pc \in {"embed", "insert", "failed"} THEN stream - 1 ELSE stream
          /\ \A i \in DOMAIN collection : collection[i].id = i

\* the third item's embedding failed 20 times
C5_Witness ==
    /\ pc = "failed"
    /\ stream = 3
    /\ Len(collection) = 2

(***************************************************************************)
(* C6.  While fewer than 20 attempts of a generate_embeddings call have    *)
(* failed, a failure is followed by another attempt and a success returns  *)
(* the vector of the text.  No call makes more than 20 attempts, and the   *)
(* item is then inserted exactly once, as it is when no attempt fails.     *)
(***************************************************************************)
C6_RetrySuccess ==
    /\ attempt <= 20
    /\ pc = "embed" =>
          /\ ENABLED EmbedSucceeds
          /\ attempt < 20 => (ENABLED EmbedRetry /\ ~ENABLED EmbedExhausted)
    /\ pc = "insert" => vectorArray = [dimensions |-> 1536, direction |-> Direction(object.overview)]
    /\ pc = "count" =>
          /\ Cardinality({i \in DOMAIN collection : collection[i].id = object.id}) = 1
          /\ collection[Len(collection)] = [ id |-> object.id,
                                             overview |-> object.overview,
                                             vectorContent |-> [ dimensions |-> 1536,
                                                                 direction |-> Direction(object.overview) ] ]

\* an item inserted after 19 failed attempts
C6_Witness ==
    /\ pc = "count"
    /\ attempt = 20
    /\ collection[Len(collection)].id = object.id

(***************************************************************************)
(* C7.  Whatever the content collection holds and whatever the question,   *)
(* the retriever returns at most 5 documents, each one a document of the   *)
(* collection whose cosine score against the question is 0.2 or more; the  *)
(* documents an invoke retrieved are such a result.                        *)
(***************************************************************************)
C7_RetrievalBound ==
    /\ \A question \in Questions : WithinBound(retriever(question, collection), question)
    /\ Probed => WithinBound(docs, query)

\* six documents reach the score and five are returned; another question's
\* five nearest include documents below the score, which are left out
C7_Witness ==
    /\ Probed
    /\ Len(docs) = 5
    /\ Cardinality({j \in DOMAIN collection :
                        Cos20(Direction(query), collection[j].vectorContent.direction)}) > 5
    /\ \E question \in Questions :
          /\ Len(retriever(question, collection)) < 5
          /\ Len(retriever(question, collection)) > 0

(***************************************************************************)
(* C8.  When the chat endpoint fails during a query, chain.invoke raises:  *)
(* its caller gets the error and no answer, neither one made up locally    *)
(* nor one taken from elsewhere.                                           *)
(***************************************************************************)
C8_GenerationFailurePropagates ==
    /\ (GenerationFailed /\ Returned) =>
          /\ response.kind = "error"
          /\ response.answer = ""
          /\ response.source_documents = <<>>
    /\ GenerationFailed => pc = "ready"
    /\ response.kind = "answer" => (llmCalls = 0 \/ response.answer = generation)

\* the chat endpoint failed on a query whose retriever had found documents
C8_Witness ==
    /\ Returned
    /\ GenerationFailed
    /\ docs # <<>>
    /\ response.kind = "error"

(***************************************************************************)
(* C9.  The content collection and the cache collection are two            *)
(* collections, each with its own index.  A step of the ingestion loop     *)
(* leaves the cache collection as it is and changes the content collection *)
(* only by adding one document; a step of a query leaves the content       *)
(* collection as it is and changes the cache collection only by adding one *)
(* entry.                                                                  *)
(***************************************************************************)
C9_StoreSeparation ==
    [][ /\ (IngestionStep \/ QueryStep) => indexes.collection.collection # indexes.cache.collection
        /\ IngestionStep =>
              /\ cache' = cache
              /\ collection' # collection =>
                    collection' = Append(collection, [ id |-> object.id,
                                                       overview |-> object.overview,
                                                       vectorContent |-> vectorArray ])
        /\ QueryStep =>
              /\ collection' = collection
              /\ cache' # cache => (Len(cache') = Len(cache) + 1 /\ SubSeq(cache', 1, Len(cache)) = cache)
      ]_vars

\* documents were ingested and a query then added a cache entry
C9_Witness ==
    /\ Returned
    /\ Len(collection) >= 2
    /\ Len(cache) >= 1

C11_PipelineOrdering ==
    /\ [](
          /\ invocations > 0 =>
                /\ QueryStep
                /\ Len(collection) = stream
                /\ counter = stream
                /\ \A i \in 1..stream : collection[i].id = StreamItem(i).id
          /\ (pc \in {"lookup", "generate", "update"} \/ llmCalls > 0) =>
                docs = retriever(query, collection)
          /\ (invocations > 0 /\ response.kind = "answer") =>
                response.source_documents = retriever(query, collection)
         )
    /\ [][
          /\ collection' # collection =>
                \/ pc = "setup" /\ collection' = <<>>
                \/ pc = "insert" /\ Len(collection') = Len(collection) + 1 /\ invocations' = 0
          /\ (pc' = "stream" /\ pc = "ingest") => (collection = <<>> /\ invocations = 0)
          /\ (pc # "ingest" /\ pc' = "ingest") => pc = "setup"
          /\ invocations' # invocations => (pc = "ready" /\ pc' = "retrieve" /\ Len(collection) = stream)
          /\ (pc # "retrieve" /\ pc' = "retrieve") => pc = "ready"
          /\ (pc # "lookup" /\ pc' = "lookup") =>
                (pc = "retrieve" /\ docs' = retriever(query, collection) /\ llmCalls' = 0)
          /\ (pc # "generate" /\ pc' = "generate") => (pc = "lookup" /\ llmCalls = 0)
          /\ llmCalls' # llmCalls =>
                (pc \in {"ready", "generate"} /\ (pc = "generate" => docs = retriever(query, collection)))
         ]_vars

\* a second query has retrieved documents, missed the cache and been answered
C11_Witness ==
    /\ pc = "update"
    /\ invocations = 2
    /\ llmCalls = 1
    /\ docs # <<>>
    /\ docs = retriever(query, collection)
    /\ Len(collection) = stream

(***************************************************************************)
(* C12.  The ingestion loop handles one record at a time, in stream order: *)
(* a record is read only when the one before it has been embedded,         *)
(* inserted and counted, in that order.  The loop sleeps exactly when the  *)
(* number of records inserted has become a positive multiple of 100, and   *)
(* only after the insert of the record that made it so: at every point the *)
(* loop has slept floor(inserted / 100) times, and after a pass over N     *)
(* records floor(N / 100) times.                                           *)
(***************************************************************************)
C12_IngestionPacing ==
    /\ [](
          /\ pc # "setup" =>
                /\ sleeps = counter \div 100
                /\ Len(collection) = IF pc = "count" THEN counter + 1 ELSE counter
                /\ \A i \in DOMAIN collection : collection[i].id = StreamItem(i).id
          /\ pc \in {"embed", "insert", "count"} =>
                /\ object = StreamItem(stream)
                /\ Len(collection) = IF pc = "count" THEN stream ELSE stream - 1
          /\ pc \in {"stream", "ingested"} => Len(collection) = stream
          /\ pc = "ingested" => sleeps = stream \div 100
         )
    /\ [][
          /\ stream' # stream => (pc = "stream" /\ stream' = stream + 1 /\ counter = stream)
          /\ (pc # "embed" /\ pc' = "embed") => pc = "stream"
          /\ (pc # "insert" /\ pc' = "insert") => pc = "embed"
          /\ (pc # "count" /\ pc' = "count") =>
                (pc = "insert" /\ collection' = Append(collection, [ id |-> object.id,
                                                                     overview |-> object.overview,
                                                                     vectorContent |-> vectorArray ]))
          /\ (pc # "stream" /\ pc' = "stream") => pc \in {"ingest", "count"}
          /\ counter' # counter => (pc \in {"ingest", "count"} /\ (pc = "count" => counter' = counter + 1))
          /\ sleeps' # sleeps =>
                /\ pc = "count"
                /\ sleeps' = sleeps + 1
                /\ counter' > 0
                /\ counter' % 100 = 0
                /\ counter' = Len(collection)
                /\ collection' = collection
                /\ collection[Len(collection)].id = object.id
          /\ (pc = "count" /\ counter' % 100 = 0) => sleeps' = sleeps + 1
         ]_vars

\* a pass over more than 200 records has ended, between two multiples of 100
C12_Witness ==
    /\ pc = "ingested"
    /\ stream > 200
    /\ stream % 100 # 0
    /\ Len(collection) = stream
    /\ sleeps = 2

(***************************************************************************)
(* C13.  Once the setup cell has created the cache collection, no step     *)
(* changes or removes an entry of it: a step leaves the entries there are  *)
(* as they are and adds at most one after them, and a cache hit adds none. *)
(* Between queries the cache holds as many entries as there have been      *)
(* queries whose lookup missed and whose chat call answered; the entry of  *)
(* such a query is added before its chain.invoke returns.                  *)
(***************************************************************************)
C13_CacheAppendOnly ==
    /\ [](
          /\ pc # "setup" =>
                Len(cache) = IF pc = "update" THEN answeredMisses - 1 ELSE answeredMisses
          /\ pc = "ready" => Len(cache) = answeredMisses
          /\ answeredMisses <= invocations
         )
    /\ [][
          /\ pc # "setup" =>
                /\ Len(cache') \in {Len(cache), Len(cache) + 1}
                /\ SubSeq(cache', 1, Len(cache)) = cache
          /\ pc = "lookup" => cache' = cache
          /\ (pc = "lookup" /\ pc' = "ready") =>
                (response'.kind = "answer" /\ answeredMisses' = answeredMisses)
          /\ cache' # cache => (pc = "setup" \/ (pc = "update" /\ llmCalls = 1 /\ generation \in Answers))
         ]_vars

\* two queries missed and were answered, and a third was a cache hit
C13_Witness ==
    /\ Returned
    /\ invocations = 3
    /\ llmCalls = 0
    /\ response.kind = "answer"
    /\ Len(cache) = 2
    /\ answeredMisses = 2

====
